---- MODULE Spec2Model ----
(***************************************************************************)
(* ParserAgent (agent.py): the loop that analyses a document once, then    *)
(* generates, persists, executes and validates a parser, carrying the      *)
(* message of a failed attempt into the next generation prompt.            *)
(*                                                                         *)
(* One action is one segment of ParserAgent.run between two blocking       *)
(* calls: the analysis call, the generation call (with the length check    *)
(* and write_text that follow it), test_parser (which runs the generated   *)
(* code) and validate (with the decision and to_csv that follow it).       *)
(*                                                                         *)
(* Environment: the language-model service may return any text or raise    *)
(* an error; the generated program may do anything a Python module can do  *)
(* when loaded and called, including raising an exception that is not an   *)
(* Exception (SystemExit, KeyboardInterrupt).  Under Spec the two files    *)
(* the agent writes (the parser and the output csv) are written without    *)
(* error, and every generation call takes at least a second, so that the   *)
(* parser file never keeps its mtime across two writes.                    *)
(*                                                                         *)
(* Specifications:                                                         *)
(*   Spec       one call of run on a new ParserAgent                       *)
(*   SpecIO     Spec, and write_text of the parser file can raise          *)
(*   SpecLoad   Spec, and a generation call can return within a second     *)
(*   SpecMain   the process: main, from the command line to the exit       *)
(*   SpecRerun  run called twice on one ParserAgent, deterministic service *)
(***************************************************************************)
EXTENDS Naturals, Sequences, FiniteSets

VARIABLES
    pc,              \* position in ParserAgent.run
    attempt,         \* the loop variable of run (0 before the loop)
    pdf_analysis,    \* local of run: the analysis text, "" before it exists
    last_error,      \* self.last_error: <<>> while the attribute is absent, else <<message>>
    parser_code,     \* local of run: the text returned by the last generate_parser_code
    output_parser,   \* the file custom_parser/<bank>_parser.py
    result_df,       \* local of run: the frame returned by the last test_parser
    output_csv,      \* the file parsed_<bank>.csv
    csv_file,        \* the reference csv under data/ that __init__ looked up
    returned,        \* what run returned: "none" while it runs, "True", "False", "raised"
    outcome,         \* the return statement that ended run, named after the spec
    request,         \* history: the request of the most recent generation call
    request_diag,    \* history: what diag was when that request was built
    diag,            \* history: <<>> or the most recent failed attempt and its message
    ended,           \* history: the stage at which each failed attempt ended, in order
    validation,      \* history: the results of the calls of validate, in order
    calls,           \* history: how often each collaborator / file write was used
    parser_mtime,    \* the second in which the parser file was last written, counted from 0
    pycache,         \* custom_parser/__pycache__/<bank>_parser.*.pyc, the bytecode cache
    executed,        \* history: <<>> or the text whose code the last test_parser ran
    run_no,          \* how many times run has been called on this ParserAgent
    previous,        \* history: <<>> or what the previous call of run left behind
    target_given,    \* main: the command line carries --target
    api_key,         \* main: the environment variable GOOGLE_API_KEY is set
    main_pc,         \* position in main: "start", "run" (inside agent.run()), "exited"
    exit_code        \* the exit status of the process: <<>> while it runs, else <<code>>

\* The state of ParserAgent.run and of the files it works on.
runvars == <<pc, attempt, pdf_analysis, last_error, parser_code, output_parser, result_df,
             output_csv, csv_file, returned, outcome, request, request_diag,
             diag, ended, validation, calls, parser_mtime, pycache, executed>>

\* The state of main.
mainvars == <<target_given, api_key, main_pc, exit_code>>

\* The calls of run on one ParserAgent.
rerunvars == <<run_no, previous>>

\* What one step of run leaves as it is.
outside == <<mainvars, rerunvars>>

vars == <<runvars, mainvars, rerunvars>>

----------------------------------------------------------------------------
(* Bounds and program constants *)

\* self.max_attempts
max_attempts == 5

\* len(parser_code.strip()) < 50 is "too short"
MinCodeLength == 50

\* a frame of the model has one column and at most MaxRows rows
MaxRows == 1

\* under SpecRerun at most MaxFailures attempts fail in the two runs together
MaxFailures == 2

----------------------------------------------------------------------------
(* Data *)

\* The values of a cell, and the dtypes of a column: the same values read as
\* numbers or as text.
CellValues == {1, 2}
Dtypes == {"int64", "object"}

RECURSIVE SeqsUpTo(_, _)
SeqsUpTo(S, n) ==
    IF n = 0 THEN {<<>>}
    ELSE LET shorter == SeqsUpTo(S, n - 1)
         IN  shorter \cup {Append(s, x) : s \in {q \in shorter : Len(q) = n - 1}, x \in S}

\* Python's None and a pandas DataFrame, as the values parse() can return.
None == [isNone |-> TRUE, dtype |-> "", rows |-> <<>>]
DataFrame(dtype, rows) == [isNone |-> FALSE, dtype |-> dtype, rows |-> rows]
DataFrames == {DataFrame(d, r) : d \in Dtypes, r \in SeqsUpTo(CellValues, MaxRows)}

\* DataFrame.empty and DataFrame.shape[0]
empty(df) == Len(df.rows) = 0
shape0(df) == Len(df.rows)

\* equals comparing the values only.
equals_IgnoresDtype(a, b) == a.rows = b.rows

\* DataFrame.equals: same shape, same values, same dtypes, same order.
equals(a, b) == a.dtype = b.dtype /\ a.rows = b.rows

\* DataFrame.to_csv(index=False): the text of the cells; the dtype is not written.
to_csv(df) == df.rows

\* pd.read_csv: the cells of the text, with the dtype inferred from the text (the
\* texts of the model are all numerals).
read_csv(text) == DataFrame("int64", text)

\* A file that does not exist, and a file with a content.
NoFile == [exists |-> FALSE, content |-> <<>>]
File(c) == [exists |-> TRUE, content |-> <<c>>]

\* What loading the generated module and calling its parse() does.
\*   load_error / load_exit   exec_module raises an Exception / a BaseException
\*   no_entry                 the module defines no parse
\*   raise_error / raise_exit parse raises an Exception / a BaseException
\*   return                   parse returns df (None or a DataFrame)
Behaviour(kind, df) == [kind |-> kind, df |-> df]
ErrorKinds == {"load_error", "no_entry", "raise_error"}
ExitKinds == {"load_exit", "raise_exit"}
Behaviours ==
    {Behaviour(k, None) : k \in ErrorKinds \cup ExitKinds}
        \cup {Behaviour("return", df) : df \in DataFrames \cup {None}}

\* A program text as the generation service returns it for attempt k: its length
\* after strip(), and what it does when loaded and called.
Text(k, len, beh) == [attempt |-> k, len |-> len, beh |-> beh]
Lengths == {0, MinCodeLength - 1, MinCodeLength}
Texts(k) ==
    {Text(k, len, Behaviour("no_entry", None)) : len \in Lengths \ {MinCodeLength}}
        \cup {Text(k, MinCodeLength, b) : b \in Behaviours}
\* The local parser_code before the first generation returns.
NoText == Text(0, 0, Behaviour("no_entry", None))

\* The messages that can become self.last_error.
Message(kind, detail, k) == [kind |-> kind, detail |-> detail, attempt |-> k]
TooShortMessage == Message("too_short", "generated parser code is too short", 0)
NoneMessage == Message("returned_none", "parser returned None", 0)
EmptyMessage == Message("returned_empty", "parser returned empty Dataframe", 0)
ExecFailedMessage(kind) == Message("exec_failed", kind, 0)
NoReferenceMessage == Message("no_reference", "No validation file available", 0)
PassedMessage == Message("passed", "Validation passed", 0)
MismatchMessage == Message("mismatch", "Data content doesn't match exactly", 0)
ValidationErrorMessage == Message("validation_error", "validation failed", 0)
AttemptFailedMessage(k) == Message("attempt_failed", "generation error", k)
SuccessMessage == Message("success", "Success", 0)

----------------------------------------------------------------------------
(* The reference csv: absent, present and readable, or present and unreadable *)

NoCsv == [exists |-> FALSE, readable |-> FALSE, text |-> <<>>]
CsvFile(readable, text) == [exists |-> TRUE, readable |-> readable, text |-> text]
CsvTexts == SeqsUpTo(CellValues, MaxRows)
CsvFiles == {NoCsv, CsvFile(FALSE, <<>>)} \cup {CsvFile(TRUE, t) : t \in CsvTexts}

----------------------------------------------------------------------------
(* The methods of ParserAgent, as operators *)

\* Before the first generation call.
NoRequest == [attempt |-> 0, analysis |-> "", feedback |-> <<>>]

\* generate_parser_code: the request sent to the model.  The prompt carries the
\* analysis, the attempt index and, when the attribute last_error exists, its text.
GenerationRequest(analysis, k, le) ==
    [attempt |-> k, analysis |-> analysis, feedback |-> le]

\* run: "not parser_code or len(parser_code.strip()) < 50"
TooShort(code) == code.len = 0 \/ code.len < MinCodeLength

\* The bytecode cache of the parser file: absent, or the code compiled from a
\* text together with the mtime and the size the source had then.
NoCache == [exists |-> FALSE, mtime |-> 0, size |-> 0, code |-> <<>>]
Cache(mtime, text) == [exists |-> TRUE, mtime |-> mtime, size |-> text.len, code |-> <<text>>]

\* SourceFileLoader.get_code: the cache is used when the mtime (in whole seconds)
\* and the size it records are those of the source file.
CacheHit(file, mtime, cache) ==
    /\ file.exists
    /\ cache.exists
    /\ cache.mtime = mtime
    /\ cache.size = file.content[1].len

\* spec.loader.exec_module(module): the program that is executed, as a file
\* holding its text: the cached code on a hit, the source otherwise.
get_code(file, mtime, cache) ==
    IF CacheHit(file, mtime, cache) THEN File(cache.code[1]) ELSE file

\* ... and the cache it leaves: a source that was read and compiled is cached (a
\* load_error is a source that does not compile).
cache_bytecode(file, mtime, cache) ==
    IF ~file.exists \/ CacheHit(file, mtime, cache) THEN cache
    ELSE IF file.content[1].beh.kind = "load_error" THEN cache
    ELSE Cache(mtime, file.content[1])

\* What test_parser hands back: the tuple (success, result_df, message), or an
\* exception that its "except Exception" does not catch.
Returns(success, df, message) ==
    [escapes |-> FALSE, success |-> success, df |-> df, message |-> message]
Escapes == [escapes |-> TRUE, success |-> FALSE, df |-> None, message |-> SuccessMessage]

\* test_parser without the check of DataFrame.empty.
test_parser_AllowsEmpty(file) ==
    IF ~file.exists THEN Returns(FALSE, None, ExecFailedMessage("load_error"))
    ELSE LET beh == file.content[1].beh
         IN  IF beh.kind \in ExitKinds THEN Escapes
             ELSE IF beh.kind \in ErrorKinds
                  THEN Returns(FALSE, None, ExecFailedMessage(beh.kind))
             ELSE IF beh.df.isNone THEN Returns(FALSE, None, NoneMessage)
             ELSE Returns(TRUE, beh.df, SuccessMessage)

\* test_parser on the program that exec_module executes: call parse, classify.
test_parser(file) ==
    IF ~file.exists THEN Returns(FALSE, None, ExecFailedMessage("load_error"))
    ELSE LET beh == file.content[1].beh
         IN  IF beh.kind \in ExitKinds THEN Escapes
             ELSE IF beh.kind \in ErrorKinds
                  THEN Returns(FALSE, None, ExecFailedMessage(beh.kind))
             ELSE IF beh.df.isNone THEN Returns(FALSE, None, NoneMessage)
             ELSE IF empty(beh.df) THEN Returns(FALSE, None, EmptyMessage)
             ELSE Returns(TRUE, beh.df, SuccessMessage)

\* validate with a missing reference treated as a failure.
validate_NeedsReference(df, csv) ==
    IF ~csv.exists THEN [valid |-> FALSE, message |-> NoReferenceMessage]
    ELSE IF ~csv.readable THEN [valid |-> FALSE, message |-> ValidationErrorMessage]
    ELSE IF equals(df, read_csv(csv.text))
         THEN [valid |-> TRUE, message |-> PassedMessage]
         ELSE [valid |-> FALSE, message |-> MismatchMessage]

\* validate: (valid, message)
validate(df, csv) ==
    IF ~csv.exists THEN [valid |-> TRUE, message |-> NoReferenceMessage]
    ELSE IF ~csv.readable THEN [valid |-> FALSE, message |-> ValidationErrorMessage]
    ELSE IF equals(df, read_csv(csv.text))
         THEN [valid |-> TRUE, message |-> PassedMessage]
         ELSE [valid |-> FALSE, message |-> MismatchMessage]

----------------------------------------------------------------------------
(* The steps of run *)

\* The stage at which an attempt fails, read from the message it produces: in the
\* generation (nothing is written), in test_parser, or in validate.
GenerationKinds == {"too_short", "attempt_failed"}
ExecutionKinds == {"exec_failed", "returned_none", "returned_empty"}
ValidationKinds == {"mismatch", "validation_error"}
Stage(message) ==
    IF message.kind \in GenerationKinds THEN "generation"
    ELSE IF message.kind \in ExecutionKinds THEN "execution"
    ELSE "validation"

Count(what) == [calls EXCEPT ![what] = @ + 1]

\* "return True" / "return False"
Return(value, how) ==
    /\ pc' = "done"
    /\ returned' = value
    /\ outcome' = how

\* RetryOrFail with the loop bound off by one.
RetryOrFail_OffByOne(message) ==
    IF attempt <= max_attempts
    THEN /\ last_error' = <<message>>
         /\ attempt' = attempt + 1
         /\ pc' = "generate"
         /\ UNCHANGED <<returned, outcome>>
    ELSE /\ Return("False", "Failure")
         /\ UNCHANGED <<last_error, attempt>>

\* RetryOrFail with the wrong boolean on the last attempt.
RetryOrFail_ReturnsTrue(message) ==
    IF attempt < max_attempts
    THEN /\ last_error' = <<message>>
         /\ attempt' = attempt + 1
         /\ pc' = "generate"
         /\ UNCHANGED <<returned, outcome>>
    ELSE /\ Return("True", "Success")
         /\ UNCHANGED <<last_error, attempt>>

\* The failure handler of run, used after a too-short text, a failed test and a
\* caught exception:
\*     if attempt < self.max_attempts: self.last_error = message; continue
\*     else: return False
RetryOrFail(message) ==
    IF attempt < max_attempts
    THEN /\ last_error' = <<message>>
         /\ attempt' = attempt + 1
         /\ pc' = "generate"
         /\ UNCHANGED <<returned, outcome>>
    ELSE /\ Return("False", "Failure")
         /\ UNCHANGED <<last_error, attempt>>

\* RetryOrPartial without "self.last_error = validation_message".
RetryOrPartial_KeepsOldError(message) ==
    IF attempt < max_attempts
    THEN /\ attempt' = attempt + 1
         /\ pc' = "generate"
         /\ calls' = Count("validate")
         /\ UNCHANGED <<last_error, returned, outcome, output_csv>>
    ELSE IF shape0(result_df) > 0
         THEN /\ output_csv' = File(to_csv(result_df))
              /\ calls' = [calls EXCEPT !["validate"] = @ + 1, !["write_csv"] = @ + 1]
              /\ Return("True", "PartialSuccess")
              /\ UNCHANGED <<last_error, attempt>>
         ELSE /\ Return("False", "Failure")
              /\ calls' = Count("validate")
              /\ UNCHANGED <<last_error, attempt, output_csv>>

\* RetryOrPartial with to_csv after every failed validation.
RetryOrPartial_WritesEveryTime(message) ==
    IF attempt < max_attempts
    THEN /\ last_error' = <<message>>
         /\ attempt' = attempt + 1
         /\ pc' = "generate"
         /\ output_csv' = File(to_csv(result_df))
         /\ calls' = [calls EXCEPT !["validate"] = @ + 1, !["write_csv"] = @ + 1]
         /\ UNCHANGED <<returned, outcome>>
    ELSE IF shape0(result_df) > 0
         THEN /\ output_csv' = File(to_csv(result_df))
              /\ calls' = [calls EXCEPT !["validate"] = @ + 1, !["write_csv"] = @ + 1]
              /\ Return("True", "PartialSuccess")
              /\ UNCHANGED <<last_error, attempt>>
         ELSE /\ Return("False", "Failure")
              /\ calls' = Count("validate")
              /\ UNCHANGED <<last_error, attempt, output_csv>>

\* RetryOrPartial without the partial-success branch.
RetryOrPartial_NoPartial(message) ==
    /\ RetryOrFail(message)
    /\ calls' = Count("validate")
    /\ UNCHANGED output_csv

\* The handler of a failed validation: as RetryOrFail, but on the last attempt a
\* frame with rows is written and run returns True.
RetryOrPartial(message) ==
    IF attempt < max_attempts
    THEN /\ last_error' = <<message>>
         /\ attempt' = attempt + 1
         /\ pc' = "generate"
         /\ calls' = Count("validate")
         /\ UNCHANGED <<returned, outcome, output_csv>>
    ELSE IF shape0(result_df) > 0
         THEN /\ output_csv' = File(to_csv(result_df))
              /\ calls' = [calls EXCEPT !["validate"] = @ + 1, !["write_csv"] = @ + 1]
              /\ Return("True", "PartialSuccess")
              /\ UNCHANGED <<last_error, attempt>>
         ELSE /\ Return("False", "Failure")
              /\ calls' = Count("validate")
              /\ UNCHANGED <<last_error, attempt, output_csv>>

\* analyze_pdf_structure returns: the loop starts with attempt = 1.
AnalyzeOk ==
    /\ pc = "analyze"
    /\ pdf_analysis' = "analysis"
    /\ calls' = Count("analyze")
    /\ attempt' = 1
    /\ pc' = "generate"
    /\ UNCHANGED <<last_error, parser_code, output_parser, result_df, output_csv, csv_file,
                   returned, outcome, request, request_diag, diag, ended, validation>>
    /\ UNCHANGED <<parser_mtime, pycache, executed, outside>>

\* AnalyzeFails without the "return False": the loop starts with no analysis.
AnalyzeFails_Continues ==
    /\ pc = "analyze"
    /\ calls' = [calls EXCEPT !["analyze"] = @ + 1, !["analyze_failed"] = @ + 1]
    /\ attempt' = 1
    /\ pc' = "generate"
    /\ UNCHANGED <<pdf_analysis, last_error, parser_code, output_parser, result_df, output_csv,
                   csv_file, returned, outcome, request, request_diag, diag, ended, validation>>
    /\ UNCHANGED <<parser_mtime, pycache, executed, outside>>

\* analyze_pdf_structure raises: "return False", no attempt is made.
AnalyzeFails ==
    /\ pc = "analyze"
    /\ calls' = [calls EXCEPT !["analyze"] = @ + 1, !["analyze_failed"] = @ + 1]
    /\ Return("False", "AnalysisAbort")
    /\ UNCHANGED <<attempt, pdf_analysis, last_error, parser_code, output_parser, result_df,
                   output_csv, csv_file, request, request_diag, diag, ended, validation>>
    /\ UNCHANGED <<parser_mtime, pycache, executed, outside>>

\* The request generate_parser_code sends in this attempt.
Request == GenerationRequest(pdf_analysis, attempt, last_error)

\* History: a generation call is made.
Asked ==
    /\ request' = Request
    /\ request_diag' = diag

\* History: this attempt fails with the message.
Failed(message) ==
    /\ diag' = <<[attempt |-> attempt, message |-> message]>>
    /\ ended' = Append(ended, Stage(message))

\* generate_parser_code raises (the model call fails): the except branch of run.
GenerateRaises ==
    /\ pc = "generate"
    /\ Asked
    /\ calls' = Count("generate")
    /\ Failed(AttemptFailedMessage(attempt))
    /\ RetryOrFail(AttemptFailedMessage(attempt))
    /\ UNCHANGED <<pdf_analysis, parser_code, output_parser, result_df, output_csv,
                   csv_file, validation>>
    /\ UNCHANGED <<parser_mtime, pycache, executed, outside>>

\* GenerateTooShort without the length check: the text is written and tested.
GenerateTooShort_NoCheck ==
    /\ pc = "generate"
    /\ \E t \in Texts(attempt) :
          /\ TooShort(t)
          /\ parser_code' = t
          /\ output_parser' = File(t)
    /\ Asked
    /\ calls' = [calls EXCEPT !["generate"] = @ + 1, !["write_parser"] = @ + 1]
    /\ pc' = "test"
    /\ parser_mtime' = parser_mtime + 1
    /\ UNCHANGED <<attempt, pdf_analysis, last_error, result_df, output_csv, csv_file,
                   returned, outcome, diag, ended, validation>>
    /\ UNCHANGED <<pycache, executed, outside>>

\* GenerateTooShort with write_text placed before the length check.
GenerateTooShort_WritesFirst ==
    /\ pc = "generate"
    /\ \E t \in Texts(attempt) :
          /\ TooShort(t)
          /\ parser_code' = t
          /\ output_parser' = File(t)
    /\ Asked
    /\ calls' = [calls EXCEPT !["generate"] = @ + 1, !["write_parser"] = @ + 1]
    /\ Failed(TooShortMessage)
    /\ RetryOrFail(TooShortMessage)
    /\ UNCHANGED <<pdf_analysis, result_df, output_csv, csv_file, validation>>
    /\ parser_mtime' = parser_mtime + 1
    /\ UNCHANGED <<pycache, executed, outside>>

\* generate_parser_code returns a text that is too short: nothing is written.
GenerateTooShort ==
    /\ pc = "generate"
    /\ \E t \in Texts(attempt) :
          /\ TooShort(t)
          /\ parser_code' = t
    /\ Asked
    /\ calls' = Count("generate")
    /\ Failed(TooShortMessage)
    /\ RetryOrFail(TooShortMessage)
    /\ UNCHANGED <<pdf_analysis, output_parser, result_df, output_csv, csv_file, validation>>
    /\ UNCHANGED <<parser_mtime, pycache, executed, outside>>

\* generate_parser_code returns a text that is long enough: write_text.
GeneratePersists ==
    /\ pc = "generate"
    /\ \E t \in Texts(attempt) :
          /\ ~TooShort(t)
          /\ parser_code' = t
          /\ output_parser' = File(t)
    /\ Asked
    /\ calls' = [calls EXCEPT !["generate"] = @ + 1, !["write_parser"] = @ + 1]
    /\ pc' = "test"
    /\ UNCHANGED <<attempt, pdf_analysis, last_error, result_df, output_csv, csv_file,
                   returned, outcome, diag, ended, validation>>
    /\ parser_mtime' = parser_mtime + 1
    /\ UNCHANGED <<pycache, executed, outside>>

\* The message of the except branch of run when write_text raised.
WriteFailedMessage(k) == Message("attempt_failed", "write error", k)

\* What a write_text that raised can leave of the text of attempt k: nothing.
Truncated(k) == Text(k, 0, Behaviour("no_entry", None))

\* generate_parser_code returns a text that is long enough and write_text raises
\* (an OSError): the except branch of run.  The file is as it was, or was opened
\* and truncated before the error.
GenerateWriteFails ==
    /\ pc = "generate"
    /\ \E t \in Texts(attempt) :
          /\ ~TooShort(t)
          /\ parser_code' = t
    /\ \/ UNCHANGED <<output_parser, parser_mtime>>
       \/ /\ output_parser' = File(Truncated(attempt))
          /\ parser_mtime' = parser_mtime + 1
    /\ Asked
    /\ calls' = Count("generate")
    /\ Failed(WriteFailedMessage(attempt))
    /\ RetryOrFail(WriteFailedMessage(attempt))
    /\ UNCHANGED <<pdf_analysis, result_df, output_csv, csv_file, validation>>
    /\ UNCHANGED <<pycache, executed, outside>>

\* The program test_parser executes in this attempt.
Loaded == get_code(output_parser, parser_mtime, pycache)

\* History and cache: test_parser has executed Loaded.
Executes ==
    /\ pycache' = cache_bytecode(output_parser, parser_mtime, pycache)
    /\ executed' = Loaded.content

\* test_parser lets an exception of the generated code through: it leaves run
\* (no handler of run catches it either) and run returns nothing.
TestEscapes ==
    /\ pc = "test"
    /\ test_parser(Loaded).escapes
    /\ calls' = Count("test")
    /\ pc' = "raised"
    /\ returned' = "raised"
    /\ outcome' = "Escaped"
    /\ UNCHANGED <<attempt, pdf_analysis, last_error, parser_code, output_parser, result_df,
                   output_csv, csv_file, request, request_diag, diag, ended, validation>>
    /\ Executes
    /\ UNCHANGED <<parser_mtime, outside>>

\* test_parser returns (False, None, message).
TestFails ==
    /\ pc = "test"
    /\ LET r == test_parser(Loaded)
       IN  /\ ~r.escapes
           /\ ~r.success
           /\ result_df' = r.df
           /\ Failed(r.message)
           /\ RetryOrFail(r.message)
    /\ calls' = Count("test")
    /\ UNCHANGED <<pdf_analysis, parser_code, output_parser, output_csv, csv_file,
                   request, request_diag, validation>>
    /\ Executes
    /\ UNCHANGED <<parser_mtime, outside>>

\* test_parser returns (True, result_df, "Success").
TestSucceeds ==
    /\ pc = "test"
    /\ LET r == test_parser(Loaded)
       IN  /\ ~r.escapes
           /\ r.success
           /\ result_df' = r.df
    /\ calls' = Count("test")
    /\ pc' = "validate"
    /\ UNCHANGED <<attempt, pdf_analysis, last_error, parser_code, output_parser, output_csv,
                   csv_file, returned, outcome, request, request_diag, diag, ended, validation>>
    /\ Executes
    /\ UNCHANGED <<parser_mtime, outside>>

\* ValidatePasses with to_csv appending to the output file (mode='a').
ValidatePasses_Appends ==
    /\ pc = "validate"
    /\ LET v == validate(result_df, csv_file)
       IN  /\ v.valid
           /\ validation' = Append(validation, v)
    /\ output_csv' = IF output_csv.exists
                      THEN File(output_csv.content[1] \o to_csv(result_df))
                      ELSE File(to_csv(result_df))
    /\ calls' = [calls EXCEPT !["validate"] = @ + 1, !["write_csv"] = @ + 1]
    /\ Return("True", "Success")
    /\ UNCHANGED <<attempt, pdf_analysis, last_error, parser_code, output_parser, result_df,
                   csv_file, request, request_diag, diag, ended>>
    /\ UNCHANGED <<parser_mtime, pycache, executed, outside>>

\* ValidatePasses without the "return True": the loop goes on.
ValidatePasses_NoReturn ==
    /\ pc = "validate"
    /\ LET v == validate(result_df, csv_file)
       IN  /\ v.valid
           /\ validation' = Append(validation, v)
    /\ output_csv' = File(to_csv(result_df))
    /\ calls' = [calls EXCEPT !["validate"] = @ + 1, !["write_csv"] = @ + 1]
    /\ IF attempt < max_attempts
       THEN /\ attempt' = attempt + 1
            /\ pc' = "generate"
            /\ UNCHANGED <<returned, outcome>>
       ELSE /\ Return("False", "Failure")
            /\ UNCHANGED attempt
    /\ UNCHANGED <<pdf_analysis, last_error, parser_code, output_parser, result_df,
                   csv_file, request, request_diag, diag, ended>>
    /\ UNCHANGED <<parser_mtime, pycache, executed, outside>>

\* validate returns (True, message): to_csv, "return True".
ValidatePasses ==
    /\ pc = "validate"
    /\ LET v == validate(result_df, csv_file)
       IN  /\ v.valid
           /\ validation' = Append(validation, v)
    /\ output_csv' = File(to_csv(result_df))
    /\ calls' = [calls EXCEPT !["validate"] = @ + 1, !["write_csv"] = @ + 1]
    /\ Return("True", "Success")
    /\ UNCHANGED <<attempt, pdf_analysis, last_error, parser_code, output_parser, result_df,
                   csv_file, request, request_diag, diag, ended>>
    /\ UNCHANGED <<parser_mtime, pycache, executed, outside>>

\* validate returns (False, message).
ValidateFails ==
    /\ pc = "validate"
    /\ LET v == validate(result_df, csv_file)
       IN  /\ ~v.valid
           /\ validation' = Append(validation, v)
           /\ Failed(v.message)
           /\ RetryOrPartial(v.message)
    /\ UNCHANGED <<pdf_analysis, parser_code, output_parser, result_df, csv_file, request, request_diag>>
    /\ UNCHANGED <<parser_mtime, pycache, executed, outside>>

----------------------------------------------------------------------------
(* The specification *)

\* After ParserAgent(target): no last_error attribute, nothing generated yet, and
\* whatever reference csv __init__ found.
Constructed ==
    /\ attempt = 0
    /\ pdf_analysis = ""
    /\ last_error = <<>>
    /\ parser_code = NoText
    /\ output_parser = NoFile
    /\ result_df = None
    /\ output_csv = NoFile
    /\ csv_file \in CsvFiles
    /\ returned = "none"
    /\ outcome = "none"
    /\ request = NoRequest
    /\ request_diag = <<>>
    /\ diag = <<>>
    /\ ended = <<>>
    /\ validation = <<>>
    /\ calls = [what \in {"analyze", "analyze_failed", "generate", "write_parser", "test", "validate", "write_csv"}
                  |-> 0]
    /\ parser_mtime = 0
    /\ pycache = NoCache
    /\ executed = <<>>

\* agent.run() has been called on a new ParserAgent, as main does when the
\* command line and the environment are complete.
Init ==
    /\ pc = "analyze"
    /\ Constructed
    /\ target_given = TRUE
    /\ api_key = TRUE
    /\ main_pc = "run"
    /\ exit_code = <<>>
    /\ run_no = 1
    /\ previous = <<>>

Next ==
    \/ AnalyzeOk
    \/ AnalyzeFails
    \/ GenerateRaises
    \/ GenerateTooShort
    \/ GeneratePersists
    \/ TestEscapes
    \/ TestFails
    \/ TestSucceeds
    \/ ValidatePasses
    \/ ValidateFails

Spec == Init /\ [][Next]_vars

\* The run on a file system where writing the parser file can fail.
NextIO ==
    \/ Next
    \/ GenerateWriteFails

SpecIO == Init /\ [][NextIO]_vars

\* generate_parser_code returns a text that is long enough within the second in
\* which the parser file was last written: write_text leaves the mtime, read in
\* whole seconds, as it was.  (The texts of the model that are long enough have
\* one length.)
GeneratePersistsAtOnce ==
    /\ pc = "generate"
    /\ output_parser.exists
    /\ \E t \in Texts(attempt) :
          /\ ~TooShort(t)
          /\ parser_code' = t
          /\ output_parser' = File(t)
    /\ Asked
    /\ calls' = [calls EXCEPT !["generate"] = @ + 1, !["write_parser"] = @ + 1]
    /\ pc' = "test"
    /\ UNCHANGED <<attempt, pdf_analysis, last_error, result_df, output_csv, csv_file,
                   returned, outcome, diag, ended, validation>>
    /\ UNCHANGED <<parser_mtime, pycache, executed, outside>>

\* The run with a generation service that can answer within a second.
NextLoad ==
    \/ Next
    \/ GeneratePersistsAtOnce

SpecLoad == Init /\ [][NextLoad]_vars

----------------------------------------------------------------------------
(* The process: main *)

\* The exit statuses a generated program can give the process by raising
\* SystemExit(code) or KeyboardInterrupt through run and main.
ExitCodes == {0, 1, 130}

Exit(code) ==
    /\ main_pc' = "exited"
    /\ exit_code' = <<code>>

\* parser.parse_args() without the required --target: argparse prints the usage and
\* exits with status 2.
MainUsage ==
    /\ main_pc = "start"
    /\ ~target_given
    /\ Exit(2)
    /\ UNCHANGED <<runvars, target_given, api_key, rerunvars>>

\* "if not os.getenv('GOOGLE_API_KEY'): ... sys.exit(1)"
MainNoKey ==
    /\ main_pc = "start"
    /\ target_given
    /\ ~api_key
    /\ Exit(1)
    /\ UNCHANGED <<runvars, target_given, api_key, rerunvars>>

\* MainConstructs without the check of GOOGLE_API_KEY.
MainConstructs_Unchecked ==
    /\ main_pc = "start"
    /\ target_given
    /\ main_pc' = "run"
    /\ pc' = "analyze"
    /\ run_no' = 1
    /\ UNCHANGED <<attempt, pdf_analysis, last_error, parser_code, output_parser, result_df,
                   output_csv, csv_file, returned, outcome, request, request_diag,
                   diag, ended, validation, calls, parser_mtime, pycache, executed,
                   target_given, api_key, exit_code, previous>>

\* "agent = ParserAgent(args.target)" returns and agent.run() is entered.
MainConstructs ==
    /\ main_pc = "start"
    /\ target_given
    /\ api_key
    /\ main_pc' = "run"
    /\ pc' = "analyze"
    /\ run_no' = 1
    /\ UNCHANGED <<attempt, pdf_analysis, last_error, parser_code, output_parser, result_df,
                   output_csv, csv_file, returned, outcome, request, request_diag,
                   diag, ended, validation, calls, parser_mtime, pycache, executed,
                   target_given, api_key, exit_code, previous>>

\* "agent = ParserAgent(args.target)" raises (Agent(...), Gemini(...) or mkdir):
\* the except branch of main, sys.exit(1).
MainConstructFails ==
    /\ main_pc = "start"
    /\ target_given
    /\ api_key
    /\ Exit(1)
    /\ UNCHANGED <<runvars, target_given, api_key, rerunvars>>

\* MainReturns with the result of run as the exit status.
MainReturns_ExitsByResult ==
    /\ main_pc = "run"
    /\ pc = "done"
    /\ Exit(IF returned = "True" THEN 0 ELSE 1)
    /\ UNCHANGED <<runvars, target_given, api_key, rerunvars>>

\* agent.run() returns True or False: a line is printed and main returns.
MainReturns ==
    /\ main_pc = "run"
    /\ pc = "done"
    /\ Exit(0)
    /\ UNCHANGED <<runvars, target_given, api_key, rerunvars>>

\* An exception that is not an Exception leaves agent.run(): "except Exception" of
\* main does not catch it either, and the interpreter ends with its status.
MainEscapes ==
    /\ main_pc = "run"
    /\ pc = "raised"
    /\ \E code \in ExitCodes : Exit(code)
    /\ UNCHANGED <<runvars, target_given, api_key, rerunvars>>

\* The process starts: nothing is constructed yet.
InitMain ==
    /\ pc = "main"
    /\ Constructed
    /\ target_given \in BOOLEAN
    /\ api_key \in BOOLEAN
    /\ main_pc = "start"
    /\ exit_code = <<>>
    /\ run_no = 0
    /\ previous = <<>>

NextMain ==
    \/ MainUsage
    \/ MainNoKey
    \/ MainConstructs
    \/ MainConstructFails
    \/ Next
    \/ MainReturns
    \/ MainEscapes

SpecMain == InitMain /\ [][NextMain]_vars

----------------------------------------------------------------------------
(* run called a second time on the same ParserAgent, with a deterministic service *)

\* The generation of this attempt raised.
GenerationRaised ==
    /\ diag # <<>>
    /\ diag[1].attempt = request.attempt
    /\ diag[1].message = AttemptFailedMessage(request.attempt)

\* What a call of run leaves behind when it returns: the files, how it ended, and
\* the last request it sent with the answer it got (<<>> for an error).
Left ==
    [outcome |-> outcome,
     generations |-> calls["generate"],
     failures |-> Len(ended),
     request |-> request,
     response |-> IF GenerationRaised THEN <<>> ELSE <<parser_code>>,
     output_parser |-> output_parser,
     output_csv |-> output_csv]

\* run has returned and is called again on the same object: its locals are new,
\* self.last_error and the files are what the first call left.
Rerun ==
    /\ pc = "done"
    /\ run_no = 1
    /\ run_no' = 2
    /\ previous' = <<Left>>
    /\ pc' = "analyze"
    /\ attempt' = 0
    /\ pdf_analysis' = ""
    /\ parser_code' = NoText
    /\ result_df' = None
    /\ returned' = "none"
    /\ outcome' = "none"
    /\ request' = NoRequest
    /\ request_diag' = <<>>
    /\ diag' = <<>>
    /\ ended' = <<>>
    /\ validation' = <<>>
    /\ calls' = [what \in DOMAIN calls |-> 0]
    /\ executed' = <<>>
    /\ UNCHANGED <<last_error, output_parser, output_csv, csv_file, parser_mtime, pycache,
                   mainvars>>

\* A deterministic analysis service: the second call ends as the first did.
SameAnalysis(ok) ==
    previous # <<>> => (ok <=> previous[1].outcome # "AnalysisAbort")

\* A deterministic generation service: a request equal to the last request of the
\* first call gets the answer that one got.
SameAnswer(response) ==
    (previous # <<>> /\ previous[1].request = Request) => previous[1].response = response

\* The attempts that have failed in the two calls together.
Failures == Len(ended) + (IF previous = <<>> THEN 0 ELSE previous[1].failures)

NextRerun ==
    \/ AnalyzeOk /\ SameAnalysis(TRUE)
    \/ AnalyzeFails /\ SameAnalysis(FALSE)
    \/ Failures < MaxFailures /\ GenerateRaises /\ SameAnswer(<<>>)
    \/ Failures < MaxFailures /\ GenerateTooShort /\ SameAnswer(<<parser_code'>>)
    \/ GeneratePersists /\ SameAnswer(<<parser_code'>>)
    \/ TestEscapes
    \/ Failures < MaxFailures /\ TestFails
    \/ TestSucceeds
    \/ ValidatePasses
    \/ Failures < MaxFailures /\ ValidateFails
    \/ Rerun

SpecRerun == Init /\ [][NextRerun]_vars

----------------------------------------------------------------------------
(* Properties *)

Stopped == pc \in {"done", "raised"}

\* The text in the parser file.
Artifact == output_parser.content[1]

\* The attempts of this run whose generated text was long enough to be written:
\* the failed ones with an execution or validation message, and the current one
\* once its generation has returned a long text.
PersistedAttempts ==
    {i \in 1..Len(ended) : ended[i] # "generation"}
        \cup (IF calls["generate"] > Len(ended) THEN {calls["generate"]} ELSE {})

Max(S) == CHOOSE m \in S : \A x \in S : x <= m

\* C1: the feedback in the request of attempt k > 1 is exactly the message that
\* attempt k-1 produced, whatever earlier attempts produced.
C1_FeedbackIsPreviousMessage ==
    /\ request.attempt = calls["generate"]
    /\ request.attempt > 1 =>
          /\ request_diag # <<>>
          /\ request_diag[1].attempt = request.attempt - 1
          /\ request.feedback = <<request_diag[1].message>>

\* C1 witness: RuntimeFailure, Mismatch, match; the third request carries the
\* mismatch message.
C1_Witness ==
    /\ outcome = "Success"
    /\ request.attempt = 3
    /\ ended = <<"execution", "validation">>
    /\ request_diag = <<[attempt |-> 2, message |-> MismatchMessage]>>
    /\ request.feedback = <<MismatchMessage>>
    /\ validation[Len(validation)].message = PassedMessage

\* C2: at most max_attempts generations, executions and validations; the attempt
\* index starts at 1, goes up by 1 and never exceeds max_attempts.
C2_AtMostMaxAttempts ==
    /\ calls["generate"] <= max_attempts
    /\ calls["test"] <= max_attempts
    /\ calls["validate"] <= max_attempts
    /\ attempt <= max_attempts
    /\ request.attempt = calls["generate"]
    /\ pc # "analyze" /\ outcome # "AnalysisAbort" =>
          /\ attempt >= 1
          /\ calls["generate"] \in {attempt - 1, attempt}

\* C2 witness: every attempt of the budget generated, executed and validated.
C2_Witness ==
    /\ Stopped
    /\ calls["generate"] = max_attempts
    /\ calls["test"] = max_attempts
    /\ calls["validate"] = max_attempts

AllAttemptsEndedIn(stage) ==
    /\ Len(ended) = max_attempts
    /\ \A i \in 1..max_attempts : ended[i] = stage

C5_FailureOnExhaustion ==
    AllAttemptsEndedIn("execution") =>
        /\ pc = "done"
        /\ returned = "False"
        /\ outcome = "Failure"
        /\ calls["write_csv"] = 0
        /\ output_csv = NoFile
        /\ calls["validate"] = 0

\* C5 witness: a run of failures of several kinds.
C5_Witness ==
    /\ AllAttemptsEndedIn("execution")
    /\ outcome = "Failure"
    /\ request.feedback = <<ExecFailedMessage("no_entry")>>
    /\ diag[1].message = EmptyMessage

\* The program in the parser file raises when it is loaded and called, and
\* test_parser has been called on it.
ArtifactRaised ==
    /\ output_parser.exists
    /\ Artifact.beh.kind \in ErrorKinds \cup ExitKinds
    /\ calls["test"] = calls["write_parser"]

\* C6: whatever the generated program raises, nothing leaves run as an exception:
\* test_parser returns it as a failure with the error's description, and run
\* goes on to the next attempt or, on the last one, returns False.
C6_NoErrorEscapes ==
    /\ returned # "raised"
    /\ ArtifactRaised =>
          /\ Len(ended) >= Artifact.attempt
          /\ ended[Artifact.attempt] = "execution"
          /\ diag[1].attempt = Artifact.attempt =>
                diag[1].message = ExecFailedMessage(Artifact.beh.kind)
          /\ IF Artifact.attempt < max_attempts
             THEN attempt > Artifact.attempt
             ELSE outcome = "Failure"

\* C7: a failed analysis ends the run at once: False is returned, the analysis was
\* called once, and nothing was generated, run, validated or written.
C7_AnalysisFailureIsFatal ==
    /\ calls["analyze"] <= 1
    /\ calls["analyze_failed"] > 0 =>
          /\ pc = "done"
          /\ returned = "False"
          /\ outcome = "AnalysisAbort"
          /\ attempt = 0
          /\ calls["generate"] = 0
          /\ calls["test"] = 0
          /\ calls["validate"] = 0
          /\ calls["write_parser"] = 0
          /\ calls["write_csv"] = 0
          /\ output_parser = NoFile
          /\ output_csv = NoFile

\* C7 witness: the analysis has failed.
C7_Witness == calls["analyze_failed"] = 1 /\ outcome = "AnalysisAbort"

C10_StopsInTerminalOutcome ==
    Stopped => outcome \in {"Success", "PartialSuccess", "Failure", "AnalysisAbort"}

\* What test_parser.py asserts of the parser file: parse returns a frame that is
\* not None, not empty and equals pd.read_csv of the reference.
ContractHolds ==
    LET r == test_parser(output_parser)
    IN  /\ ~r.escapes
        /\ r.success
        /\ ~r.df.isNone
        /\ ~empty(r.df)
        /\ csv_file.readable
        /\ r.df = read_csv(csv_file.text)

\* C11 as stated: after a run that returned True for a target with a reference
\* csv, the parser file satisfies the contract of test_parser.py.
C11_ReturnedTrueMeetsContract ==
    (returned = "True" /\ csv_file.exists) => ContractHolds

\* C11 amended: after a run that ended in Success (its validation passed) for a
\* target with a reference csv, the parser file satisfies the contract of
\* test_parser.py.  A run that returned True from the partial-success branch is
\* not covered.
C11_SuccessMeetsContract ==
    (outcome = "Success" /\ csv_file.exists) => ContractHolds

\* C11 witness: Success at the third attempt against a readable reference.
C11_Witness ==
    /\ outcome = "Success"
    /\ attempt = 3
    /\ csv_file.readable
    /\ shape0(result_df) > 0
    /\ test_parser(output_parser).df = read_csv(csv_file.text)

\* C12: an error of a generation, of write_text, of the generated program or of
\* the validation never leaves run as an exception; the failed attempt k < N is
\* followed by attempt k + 1 whose request carries its message, and the failed
\* attempt N ends the run with a returned value.
C12_RetryableErrorsBecomeFeedback ==
    /\ returned \in {"none", "True", "False"}
    /\ diag # <<>> =>
          IF diag[1].attempt < max_attempts
          THEN /\ attempt = diag[1].attempt + 1
               /\ last_error = <<diag[1].message>>
               /\ request.attempt = attempt => request.feedback = <<diag[1].message>>
          ELSE /\ pc = "done"
               /\ outcome \in {"Failure", "PartialSuccess"}

Exited == main_pc = "exited"

NoCalls == \A what \in DOMAIN calls : calls[what] = 0

\* C13 as stated: a run that returned False makes the process exit with status 0,
\* and the status is not 0 only when GOOGLE_API_KEY is missing or an error left
\* run.
C13_NonZeroOnlyWithoutKeyOrEscape ==
    Exited =>
        /\ returned = "False" => exit_code = <<0>>
        /\ exit_code # <<0>> => (~api_key \/ returned = "raised")

\* C13 amended: a run that returned (True or False) makes the process exit with
\* status 0, and the status is not 0 only when --target is missing, when
\* GOOGLE_API_KEY is missing, when the constructor raised, or when an error left
\* run.
C13_NonZeroOnlyBeforeRunOrEscape ==
    Exited =>
        /\ returned \in {"True", "False"} => exit_code = <<0>>
        /\ exit_code # <<0>> =>
              \/ ~target_given
              \/ ~api_key
              \/ pc = "main"
              \/ returned = "raised"

\* C13 witness: the process has exited after five failed attempts.
C13_Witness ==
    /\ Exited
    /\ outcome = "Failure"
    /\ returned = "False"
    /\ Len(ended) = max_attempts
    /\ exit_code = <<0>>

\* C14: without GOOGLE_API_KEY the process does nothing but exit with a status
\* that is not 0: no ParserAgent is constructed, run is not entered, no
\* collaborator is called and no file is written.
C14_NoKeyExitsBeforeConstruction ==
    ~api_key =>
        /\ main_pc \in {"start", "exited"}
        /\ Exited => (exit_code # <<>> /\ exit_code # <<0>>)
        /\ pc = "main"
        /\ NoCalls
        /\ output_parser = NoFile
        /\ output_csv = NoFile

\* C14 witness: exit with status 1 at the check of the key.
C14_Witness ==
    /\ target_given
    /\ ~api_key
    /\ Exited
    /\ exit_code = <<1>>

\* The first call of run made one generation call and ended in Success.
FirstRunSucceededAtOnce ==
    /\ run_no = 2
    /\ previous[1].outcome = "Success"
    /\ previous[1].generations = 1

TooShortAttemptEnded ==
    /\ parser_code # NoText
    /\ TooShort(parser_code)
    /\ diag # <<>>
    /\ diag[1].attempt = parser_code.attempt

\* What C16 says of an attempt k whose text was too short, for the feedback
\* message given: nothing of attempt k is in the parser file, the output csv is
\* not written, the text was neither executed nor validated, and the run goes on
\* to attempt k + 1 with the message as self.last_error or, for k = N, returns
\* False.
TooShortIsGenerationFailure(message) ==
    LET k == parser_code.attempt
    IN  /\ ended[k] = "generation"
        /\ output_parser.exists => Artifact.attempt < k
        /\ calls["write_parser"] < k
        /\ executed # <<>> => executed[1].attempt < k
        /\ calls["test"] < k
        /\ calls["validate"] < k
        /\ calls["write_csv"] = 0
        /\ output_csv = NoFile
        /\ IF k < max_attempts
           THEN /\ pc = "generate"
                /\ attempt = k + 1
                /\ last_error = <<message>>
           ELSE /\ pc = "done"
                /\ returned = "False"
                /\ outcome = "Failure"

\* C16 as stated: a too-short text makes attempt k a generation failure, with the
\* feedback "generated artifact too short".
C16_TooShortFeedbackAsStated ==
    TooShortAttemptEnded =>
        TooShortIsGenerationFailure(Message("too_short", "generated artifact too short", 0))

\* C16 amended: a too-short text makes attempt k a generation failure, with the
\* feedback "generated parser code is too short".
C16_TooShortIsGenerationFailure ==
    TooShortAttemptEnded =>
        /\ diag[1].message = TooShortMessage
        /\ TooShortIsGenerationFailure(TooShortMessage)

\* C16 witness: the text of attempt 2 was too short, the file holds the text of
\* attempt 1 and attempt 3 is about to ask with the too-short message.
C16_Witness ==
    /\ TooShortAttemptEnded
    /\ parser_code.attempt = 2
    /\ attempt = 3
    /\ output_parser.exists
    /\ Artifact.attempt = 1
    /\ last_error = <<TooShortMessage>>

\* C17: test_parser is called only after write_text, and the program it executes
\* is the text written in the same attempt (so it does what that text does), not
\* code compiled from the text of an earlier attempt.
C17_ExecutesTextOfSameAttempt ==
    /\ calls["test"] <= calls["write_parser"]
    /\ (executed # <<>> /\ calls["test"] = calls["write_parser"]) =>
          /\ output_parser.exists
          /\ executed[1].beh = Artifact.beh
          /\ executed[1] = Artifact

\* C18: the request of attempt 1 carries no feedback, in the first call of run
\* and in a second call on the same ParserAgent.
C18_FirstRequestHasNoFeedback ==
    request.attempt = 1 => request.feedback = <<>>

\* Attempts 1..N-1 ended in a failed validation and attempt N in test_parser.
MismatchesThenExecutionFailure ==
    /\ Len(ended) = max_attempts
    /\ \A i \in 1..(max_attempts - 1) : ended[i] = "validation"
    /\ ended[max_attempts] = "execution"

====
